---- MODULE Spec2Model ----
(***************************************************************************)
(* Model of the infrared camera-style transfer tool: main.py (the command  *)
(* dispatcher, run_extraction, run_application), src/camera_analyzer.py    *)
(* (extract_fingerprint, save_maps) and src/style_applicator.py            *)
(* (load_maps, apply_style).                                               *)
(*                                                                         *)
(* An image is one row of NPix samples.  A floating-point number is an     *)
(* integer count of units of 2^-FracBits, rounded after every operation to *)
(* the precision of its dtype (MantBits64 significant bits for float64,    *)
(* MantBits32 for float32), round-half-to-even; NaN and the infinities are *)
(* three values outside the numeric range.                                 *)
(***************************************************************************)
EXTENDS Integers, Sequences, FiniteSets, TLC

\* ------------------------------------------------------------- bounds
NPix == 3
MaxRaw == 3
MaxClean == 2
FracBits == 5
MantBits64 == 11
MantBits32 == 8

\* ------------------------------------------------- floating point
Pow2(n) == IF n <= 0 THEN 1 ELSE 2 ^ n

RECURSIVE BitLen(_)
BitLen(n) ==
    IF n <= 0 THEN 0
    ELSE IF n < 2 THEN 1
    ELSE IF n < 4 THEN 2
    ELSE IF n < 8 THEN 3
    ELSE IF n < 16 THEN 4
    ELSE 4 + BitLen(n \div 16)

Abs(x) == IF x < 0 THEN -x ELSE x

NaN == 2000000000
PosInf == 1000000000
NegInf == -1000000000

IsNaN(x) == x = NaN
IsInf(x) == x = PosInf \/ x = NegInf
IsFinite(x) == ~IsNaN(x) /\ ~IsInf(x)

One == Pow2(FracBits)
FromInt(n) == n * One

\* a / d rounded to the nearest integer, ties to even (a >= 0, d > 0)
RoundHalfEven(a, d) ==
    LET q == a \div d
        r == a % d
    IN  IF 2 * r < d THEN q
        ELSE IF 2 * r > d THEN q + 1
        ELSE q + (q % 2)

\* the rational num/den (in units, den > 0) rounded to p significant bits
RoundRat(num, den, p) ==
    LET a == Abs(num)
        e == BitLen(a \div den) - p
        j == IF e > 0 THEN e ELSE 0
        m == RoundHalfEven(a, den * Pow2(j))
    IN  IF num < 0 THEN -(m * Pow2(j)) ELSE m * Pow2(j)

FAdd(p, x, y) ==
    IF IsNaN(x) \/ IsNaN(y) THEN NaN
    ELSE IF IsInf(x) /\ IsInf(y) THEN (IF x = y THEN x ELSE NaN)
    ELSE IF IsInf(x) THEN x
    ELSE IF IsInf(y) THEN y
    ELSE RoundRat(x + y, 1, p)

FNeg(x) == IF IsNaN(x) THEN NaN ELSE -x

FSub(p, x, y) == FAdd(p, x, FNeg(y))

FMul(p, x, y) ==
    IF IsNaN(x) \/ IsNaN(y) THEN NaN
    ELSE IF IsInf(x) \/ IsInf(y)
         THEN (IF x = 0 \/ y = 0 THEN NaN
               ELSE IF (x < 0) = (y < 0) THEN PosInf ELSE NegInf)
    ELSE RoundRat(x * y, One, p)

FDiv(p, x, y) ==
    IF IsNaN(x) \/ IsNaN(y) THEN NaN
    ELSE IF IsInf(x) THEN (IF IsInf(y) THEN NaN
                           ELSE IF (x < 0) = (y < 0) THEN PosInf ELSE NegInf)
    ELSE IF IsInf(y) THEN 0
    ELSE IF y = 0 THEN (IF x = 0 THEN NaN ELSE IF x > 0 THEN PosInf ELSE NegInf)
    ELSE IF y < 0 THEN RoundRat((-x) * One, -y, p)
    ELSE RoundRat(x * One, y, p)

\* IEEE comparison: every comparison with NaN is false
FLe(x, y) == ~IsNaN(x) /\ ~IsNaN(y) /\ x <= y

\* ndarray.max(): NaN if any sample is NaN, else the largest sample
FMax(f) ==
    IF \E k \in DOMAIN f : IsNaN(f[k]) THEN NaN
    ELSE CHOOSE m \in {f[k] : k \in DOMAIN f} : \A k \in DOMAIN f : f[k] <= m

\* ndarray.astype(np.float32) of a float64 array
AsFloat32(f) ==
    [k \in DOMAIN f |-> IF IsFinite(f[k]) THEN RoundRat(f[k], 1, MantBits32) ELSE f[k]]

\* ndarray.astype(np.float64) / astype(np.float32) of a uint8 array
AsFloat(img) == [k \in DOMAIN img |-> FromInt(img[k])]

Pixels == 1..NPix
NoArray == << >>
Zeros == [k \in Pixels |-> 0]


\* ------------------------------------------------------- inputs
\* decoded grayscale raw images, already at the processing resolution
\* (cv2.resize to an equal size copies its source)
Black == [k \in Pixels |-> 0]
Spot == [k \in Pixels |-> IF k = 1 THEN 1 ELSE 255]
Ramp == [k \in Pixels |-> (100 * k) % 256]
RawImages == {Black, Spot}
\* decoded clean images, of the size of the fingerprint fields
CleanImages == {Spot, Ramp}
\* applicator.noise_alpha of the configuration: 0, 1/2 and 2
Alphas == {0, One \div 2, 2 * One}
\* what casting NaN to uint8 yields on the build at hand
NaNCasts == {0, 255}
\* a fingerprint left on disk by an earlier run
StaleFingerprint ==
    [vig |-> [k \in Pixels |-> FromInt(100 + k)],
     noise |-> [k \in Pixels |-> IF k = 1 THEN -(3 * One) ELSE 2 * One],
     norm |-> NoArray]
NoFiles == [vig |-> NoArray, noise |-> NoArray, norm |-> NoArray]

\* --------------------------------------------------------- state
VARIABLES
    pc,                     \* position in main.py
    action,                 \* args.action
    configLoaded,           \* "pending", then "yes" or "no": load_config's outcome
    exitCode,               \* -1 while running, then the process's exit code
    nanAsUint8,             \* the build's result of casting NaN to uint8
    disk,                   \* the three EXR files of the fingerprint directory
    cleanDirExists,         \* paths.clean_images_dir exists
    stylizedDirExists,      \* output_dir/stylized_subdir exists
    nRaw, i,                \* len(image_paths) and the loop position
    rawSeen,                \* the candidates read so far, with their outcome
    accumulator, processed_image_count, warnings,
    average_image, vignetting_map, noise_map,   \* extract_fingerprint's results
    normalized_vignette,    \* save_maps' local
    saveCalls,              \* number of save_maps calls
    extractOutcome,         \* "NotRun", "Running", "Ok" or "Failed"
    applyStarted,           \* run_application was entered
    loadCalls, loadedVignette, loadedNoise,     \* what load_maps returned
    vignette, noise,        \* run_application's locals
    noise_alpha,            \* applicator_params['noise_alpha']
    cleanDirWasMissing,     \* os.listdir(clean_images_dir) raised FileNotFoundError
    nClean, j,              \* len(clean_image_files) and the loop position
    cleanSeen,              \* the clean files read so far, with their outcome
    outputs,                \* stylized_<filename> written, per clean file
    reports,                \* clean files whose failure was printed
    vignette_normalized, final_image_float      \* apply_style's locals, last call

vars == << pc, action, configLoaded, exitCode, nanAsUint8, disk, cleanDirExists, stylizedDirExists,
           nRaw, i, rawSeen, accumulator, processed_image_count, warnings,
           average_image, vignetting_map, noise_map, normalized_vignette, saveCalls,
           extractOutcome, applyStarted, loadCalls, loadedVignette, loadedNoise,
           vignette, noise, noise_alpha, cleanDirWasMissing, nClean, j, cleanSeen,
           outputs, reports, vignette_normalized, final_image_float >>

extractVars == << nRaw, i, rawSeen, accumulator, processed_image_count, warnings,
                  average_image, vignetting_map, noise_map >>
applyVars == << loadCalls, loadedVignette, loadedNoise, vignette, noise, noise_alpha,
                cleanDirWasMissing, nClean, j, cleanSeen, outputs, reports,
                vignette_normalized, final_image_float >>

\* ------------------------------------------- camera_analyzer.py
\* variant: the count is incremented before the image is resized
AccumulateCandidateCountsErrors(kind, img, acc, cnt) ==
    IF kind = "undecodable" THEN [accumulator |-> acc, count |-> cnt, warned |-> TRUE]
    ELSE IF kind = "error" THEN [accumulator |-> acc, count |-> cnt + 1, warned |-> TRUE]
    ELSE [accumulator |-> [k \in Pixels |-> FAdd(MantBits64, acc[k], AsFloat(img)[k])],
          count |-> cnt + 1, warned |-> FALSE]

\* one pass of the loop body over a candidate file
AccumulateCandidate(kind, img, acc, cnt) ==
    IF kind = "undecodable" THEN [accumulator |-> acc, count |-> cnt, warned |-> TRUE]
    ELSE IF kind = "error" THEN [accumulator |-> acc, count |-> cnt, warned |-> TRUE]
    ELSE [accumulator |-> [k \in Pixels |-> FAdd(MantBits64, acc[k], AsFloat(img)[k])],
          count |-> cnt + 1, warned |-> FALSE]

\* cv2.BORDER_REFLECT_101 index of column k in a row of w columns
Reflect101(k, w) ==
    IF w = 1 THEN 1 ELSE IF k < 1 THEN 2 - k ELSE IF k > w THEN 2 * w - k ELSE k

\* cv2.GaussianBlur(row, (3, 3), 0) of a one-row float64 image: kernel 1/4, 1/2, 1/4
GaussianBlur(img) ==
    [k \in Pixels |->
        FAdd(MantBits64,
             FMul(MantBits64, One \div 2, img[k]),
             FMul(MantBits64, One \div 4,
                  FAdd(MantBits64, img[Reflect101(k - 1, NPix)],
                                   img[Reflect101(k + 1, NPix)])))]

\* variant: the residual taken the other way round
NoiseOfReversed(avg, vig) == [k \in Pixels |-> FSub(MantBits64, vig[k], avg[k])]

\* noise_map = average_image - vignetting_map
NoiseOf(avg, vig) == [k \in Pixels |-> FSub(MantBits64, avg[k], vig[k])]

\* variant: no check of processed_image_count before the division
FinishFingerprintUnchecked(acc, cnt) ==
    LET avg == [k \in Pixels |-> FDiv(MantBits64, acc[k], FromInt(cnt))]
        vig == GaussianBlur(avg)
    IN  [average |-> avg, vignetting_map |-> vig,
         noise_map |-> [k \in Pixels |-> FSub(MantBits64, avg[k], vig[k])]]

\* the part of extract_fingerprint after the loop
FinishFingerprint(acc, cnt) ==
    IF cnt = 0
    THEN [average |-> NoArray, vignetting_map |-> NoArray, noise_map |-> NoArray]
    ELSE LET avg == [k \in Pixels |-> FDiv(MantBits64, acc[k], FromInt(cnt))]
             vig == GaussianBlur(avg)
         IN  [average |-> avg, vignetting_map |-> vig, noise_map |-> NoiseOf(avg, vig)]

\* normalized_vignette = vignetting_map / vignetting_map.max()
NormalizeVignette64(vig) ==
    LET m == FMax(vig) IN [k \in Pixels |-> FDiv(MantBits64, vig[k], m)]

\* the files save_maps leaves when its first `written` cv2.imwrite calls succeed
SavedFiles(old, vig, nse, written) ==
    [vig |-> IF written >= 1 THEN AsFloat32(vig) ELSE old.vig,
     noise |-> IF written >= 2 THEN AsFloat32(nse) ELSE old.noise,
     norm |-> IF written >= 3 THEN AsFloat32(NormalizeVignette64(vig)) ELSE old.norm]


\* ------------------------------------------ style_applicator.py
\* load_maps: (None, None) unless both files exist; cv2.imread gives None
\* for a file it cannot decode
LoadMaps(files, readable) ==
    IF files.vig = NoArray \/ files.noise = NoArray
    THEN [vignette |-> NoArray, noise |-> NoArray]
    ELSE [vignette |-> IF readable THEN files.vig ELSE NoArray,
          noise |-> IF readable THEN files.noise ELSE NoArray]

MaxSample == 255

\* np.clip(x, 0, 255) of one sample
Clip(x) ==
    IF IsNaN(x) THEN NaN
    ELSE IF x < 0 THEN 0
    ELSE IF x > FromInt(MaxSample) THEN FromInt(MaxSample)
    ELSE x

\* astype(np.uint8) of one clipped sample: truncation; NaN has no defined result
AsUint8(x) == IF IsNaN(x) THEN nanAsUint8 ELSE x \div One

\* cv2.resize(field, (width, height)) to the field's own size copies the field
Resize(field) == [k \in Pixels |-> field[k]]

\* vignette_normalized = vignette_resized / vignette_resized.max()
NormalizeVignette32(vig) ==
    LET m == FMax(vig) IN [k \in Pixels |-> FDiv(MantBits32, vig[k], m)]

\* variant: the float image is returned without np.clip and astype
apply_style_unclipped(clean_image, vignetting_arg, noise_arg, alpha) ==
    LET normalized == NormalizeVignette32(Resize(vignetting_arg))
        final_float ==
            [k \in Pixels |->
                FAdd(MantBits32, FMul(MantBits32, AsFloat(clean_image)[k], normalized[k]),
                     FMul(MantBits32, Resize(noise_arg)[k], alpha))]
    IN  [image |-> final_float,
         vignette_normalized |-> normalized,
         final_image_float |-> final_float,
         clean_image |-> clean_image,
         vignetting_map |-> vignetting_arg,
         noise_map |-> noise_arg]

\* variant: a noise_alpha of 0 is taken as "not given" (noise_alpha or 0.5)
apply_style_default_alpha(clean_image, vignetting_arg, noise_arg, alpha) ==
    LET used == IF alpha = 0 THEN One \div 2 ELSE alpha
        normalized == NormalizeVignette32(Resize(vignetting_arg))
        final_float ==
            [k \in Pixels |->
                FAdd(MantBits32, FMul(MantBits32, AsFloat(clean_image)[k], normalized[k]),
                     FMul(MantBits32, Resize(noise_arg)[k], used))]
    IN  [image |-> [k \in Pixels |-> AsUint8(Clip(final_float[k]))],
         vignette_normalized |-> normalized,
         final_image_float |-> final_float,
         clean_image |-> clean_image,
         vignetting_map |-> vignetting_arg,
         noise_map |-> noise_arg]

\* variant: the noise map is scaled in place (noise_map *= noise_alpha)
apply_style_inplace(clean_image, vignetting_arg, noise_arg, alpha) ==
    LET normalized == NormalizeVignette32(Resize(vignetting_arg))
        scaled == [k \in Pixels |-> FMul(MantBits32, noise_arg[k], alpha)]
        final_float ==
            [k \in Pixels |->
                FAdd(MantBits32, FMul(MantBits32, AsFloat(clean_image)[k], normalized[k]),
                     Resize(scaled)[k])]
    IN  [image |-> [k \in Pixels |-> AsUint8(Clip(final_float[k]))],
         vignette_normalized |-> normalized,
         final_image_float |-> final_float,
         clean_image |-> clean_image,
         vignetting_map |-> vignetting_arg,
         noise_map |-> scaled]

\* apply_style: the returned image, its locals, and its arguments after the call
apply_style(clean_image, vignetting_arg, noise_arg, alpha) ==
    LET vignette_resized == Resize(vignetting_arg)
        noise_resized == Resize(noise_arg)
        normalized == NormalizeVignette32(vignette_resized)
        image_float == AsFloat(clean_image)
        image_with_vignette ==
            [k \in Pixels |-> FMul(MantBits32, image_float[k], normalized[k])]
        final_float ==
            [k \in Pixels |-> FAdd(MantBits32, image_with_vignette[k],
                                   FMul(MantBits32, noise_resized[k], alpha))]
    IN  [image |-> [k \in Pixels |-> AsUint8(Clip(final_float[k]))],
         vignette_normalized |-> normalized,
         final_image_float |-> final_float,
         clean_image |-> clean_image,
         vignetting_map |-> vignetting_arg,
         noise_map |-> noise_arg]

\* ---------------------------------------------------- main.py
\* variant: run_extraction returns after a failed extraction instead of exiting
AfterExtractionContinues(succeeded, act) ==
    IF act = "all" THEN [pc |-> "run_application", exitCode |-> -1]
    ELSE [pc |-> "exit", exitCode |-> IF succeeded THEN 0 ELSE 1]

\* run_extraction after extract_fingerprint returned, and main's dispatch on it
AfterExtraction(succeeded, act) ==
    IF ~succeeded THEN [pc |-> "exit", exitCode |-> 1]
    ELSE IF act = "all" THEN [pc |-> "run_application", exitCode |-> -1]
    ELSE [pc |-> "exit", exitCode |-> 0]

\* variant: a missing clean-image directory is fatal
OnMissingCleanDirFatal == [created |-> TRUE, exitCode |-> 1]

\* run_application when os.listdir(clean_images_dir) raises FileNotFoundError
OnMissingCleanDir == [created |-> TRUE, exitCode |-> 0]

\* the loop body of run_application for one clean file
ProcessClean(kind, write) ==
    IF kind = "undecodable" THEN [written |-> FALSE, reported |-> FALSE]
    ELSE IF kind = "error" THEN [written |-> FALSE, reported |-> TRUE]
    ELSE IF write = "raise" THEN [written |-> FALSE, reported |-> TRUE]
    ELSE IF write = "false" THEN [written |-> FALSE, reported |-> FALSE]
    ELSE [written |-> TRUE, reported |-> FALSE]

Init ==
    /\ pc = "main"
    /\ action \in {"extract", "apply", "all"}
    /\ configLoaded = "pending"
    /\ exitCode = -1
    /\ nanAsUint8 \in NaNCasts
    /\ disk \in {NoFiles, StaleFingerprint}
    /\ cleanDirExists \in BOOLEAN
    /\ stylizedDirExists = FALSE
    /\ nRaw = 0 /\ i = 0 /\ rawSeen = << >>
    /\ accumulator = NoArray /\ processed_image_count = 0 /\ warnings = {}
    /\ average_image = NoArray /\ vignetting_map = NoArray /\ noise_map = NoArray
    /\ normalized_vignette = NoArray
    /\ saveCalls = 0
    /\ extractOutcome = "NotRun"
    /\ applyStarted = FALSE
    /\ loadCalls = 0 /\ loadedVignette = NoArray /\ loadedNoise = NoArray
    /\ vignette = NoArray /\ noise = NoArray
    /\ noise_alpha = 0
    /\ cleanDirWasMissing = FALSE
    /\ nClean = 0 /\ j = 0 /\ cleanSeen = << >> /\ outputs = << >> /\ reports = {}
    /\ vignette_normalized = NoArray /\ final_image_float = NoArray

\* main: load_config, then the dispatch on args.action
LoadConfig ==
    /\ pc = "main"
    /\ \E loaded \in BOOLEAN :
          IF loaded
          THEN /\ configLoaded' = "yes"
               /\ pc' = IF action = "apply" THEN "run_application" ELSE "run_extraction"
               /\ exitCode' = exitCode
          ELSE /\ configLoaded' = "no"
               /\ pc' = "exit"
               /\ exitCode' = 1
    /\ UNCHANGED << action, nanAsUint8, disk, cleanDirExists, stylizedDirExists,
                    normalized_vignette, saveCalls, extractOutcome, applyStarted >>
    /\ UNCHANGED extractVars
    /\ UNCHANGED applyVars

\* run_extraction up to extract_fingerprint's loop: the directory listing
ExtractList ==
    /\ pc = "run_extraction"
    /\ extractOutcome' = "Running"
    /\ \E exists \in BOOLEAN, n \in 0..MaxRaw :
          /\ exists \/ n = 0
          /\ nRaw' = n
          /\ IF exists /\ n > 0
             THEN /\ accumulator' = Zeros
                  /\ pc' = "extract_loop"
             ELSE /\ accumulator' = accumulator
                  /\ pc' = "extract_return"
    /\ UNCHANGED << action, configLoaded, exitCode, nanAsUint8, disk, cleanDirExists, stylizedDirExists,
                    i, rawSeen, processed_image_count, warnings, average_image,
                    vignetting_map, noise_map, normalized_vignette, saveCalls,
                    applyStarted >>
    /\ UNCHANGED applyVars

\* one iteration of extract_fingerprint's loop
ExtractStep ==
    /\ pc = "extract_loop"
    /\ i < nRaw
    /\ \E kind \in {"ok", "undecodable", "error"}, img \in RawImages \cup {NoArray} :
          /\ (kind = "ok") = (img # NoArray)
          /\ LET r == AccumulateCandidate(kind, img, accumulator, processed_image_count)
             IN  /\ accumulator' = r.accumulator
                 /\ processed_image_count' = r.count
                 /\ warnings' = IF r.warned THEN warnings \cup {i + 1} ELSE warnings
          /\ rawSeen' = Append(rawSeen, [kind |-> kind, img |-> img])
    /\ i' = i + 1
    /\ UNCHANGED << pc, action, configLoaded, exitCode, nanAsUint8, disk, cleanDirExists,
                    stylizedDirExists, nRaw, average_image, vignetting_map, noise_map,
                    normalized_vignette, saveCalls, extractOutcome, applyStarted >>
    /\ UNCHANGED applyVars

\* extract_fingerprint after the loop: average, blur, residual
ExtractFinish ==
    /\ pc = "extract_loop"
    /\ i = nRaw
    /\ LET r == FinishFingerprint(accumulator, processed_image_count)
       IN  /\ average_image' = r.average
           /\ vignetting_map' = r.vignetting_map
           /\ noise_map' = r.noise_map
    /\ pc' = "extract_return"
    /\ UNCHANGED << action, configLoaded, exitCode, nanAsUint8, disk, cleanDirExists, stylizedDirExists,
                    nRaw, i, rawSeen, accumulator, processed_image_count, warnings,
                    normalized_vignette, saveCalls, extractOutcome, applyStarted >>
    /\ UNCHANGED applyVars

\* run_extraction after extract_fingerprint returned: save_maps or exit(1)
ExtractReturn ==
    /\ pc = "extract_return"
    /\ LET succeeded == vignetting_map # NoArray /\ noise_map # NoArray
           next == AfterExtraction(succeeded, action)
       IN  /\ pc' = next.pc
           /\ exitCode' = next.exitCode
           /\ IF succeeded
              THEN /\ \E written \in {0, 3} :    \* no EXR codec, or all three written
                         disk' = SavedFiles(disk, vignetting_map, noise_map, written)
                   /\ normalized_vignette' = NormalizeVignette64(vignetting_map)
                   /\ saveCalls' = saveCalls + 1
                   /\ extractOutcome' = "Ok"
                   /\ nRaw' = 0 /\ i' = 0 /\ rawSeen' = << >>
                   /\ accumulator' = NoArray /\ processed_image_count' = 0
                   /\ warnings' = {}
                   /\ average_image' = NoArray /\ vignetting_map' = NoArray
                   /\ noise_map' = NoArray
              ELSE /\ extractOutcome' = "Failed"
                   /\ UNCHANGED << disk, normalized_vignette, saveCalls >>
                   /\ UNCHANGED extractVars
    /\ UNCHANGED << action, configLoaded, nanAsUint8, cleanDirExists, stylizedDirExists, applyStarted >>
    /\ UNCHANGED applyVars

\* run_application up to the directory listing: makedirs and load_maps
ApplyStart ==
    /\ pc = "run_application"
    /\ applyStarted' = TRUE
    /\ stylizedDirExists' = TRUE
    /\ loadCalls' = loadCalls + 1
    /\ \E readable \in BOOLEAN, a \in Alphas :
          LET m == LoadMaps(disk, readable)
          IN  /\ noise_alpha' = a
              /\ vignette' = m.vignette
              /\ noise' = m.noise
              /\ loadedVignette' = m.vignette
              /\ loadedNoise' = m.noise
              /\ IF m.vignette = NoArray \/ m.noise = NoArray
                 THEN pc' = "exit" /\ exitCode' = 1
                 ELSE pc' = "list_clean" /\ exitCode' = exitCode
    /\ UNCHANGED << action, configLoaded, nanAsUint8, disk, cleanDirExists, normalized_vignette,
                    saveCalls, extractOutcome, cleanDirWasMissing, nClean, j, cleanSeen,
                    outputs, reports, vignette_normalized, final_image_float >>
    /\ UNCHANGED extractVars

\* run_application: the listing of the clean-image directory
ListClean ==
    /\ pc = "list_clean"
    /\ IF ~cleanDirExists
       THEN /\ cleanDirWasMissing' = TRUE
            /\ cleanDirExists' = OnMissingCleanDir.created
            /\ exitCode' = OnMissingCleanDir.exitCode
            /\ pc' = "exit"
            /\ nClean' = nClean
       ELSE /\ UNCHANGED << cleanDirWasMissing, cleanDirExists >>
            /\ \E n \in 0..MaxClean :
                  /\ nClean' = n
                  /\ IF n = 0
                     THEN pc' = "exit" /\ exitCode' = 0
                     ELSE pc' = "apply_loop" /\ exitCode' = exitCode
    /\ UNCHANGED << action, configLoaded, nanAsUint8, disk, stylizedDirExists, normalized_vignette,
                    saveCalls, extractOutcome, applyStarted, loadCalls, loadedVignette,
                    loadedNoise, vignette, noise, noise_alpha, j, cleanSeen, outputs,
                    reports, vignette_normalized, final_image_float >>
    /\ UNCHANGED extractVars

\* one iteration of run_application's loop
ApplyStep ==
    /\ pc = "apply_loop"
    /\ j < nClean
    /\ \E kind \in {"ok", "undecodable", "error"}, img \in CleanImages \cup {NoArray},
          write \in {"written", "false", "raise", "none"} :
          /\ (kind = "ok") = (img # NoArray)
          /\ (kind = "ok") = (write # "none")
          /\ LET p == ProcessClean(kind, write)
                 r == apply_style(img, vignette, noise, noise_alpha)
             IN  /\ IF kind = "ok"
                    THEN /\ vignette' = r.vignetting_map
                         /\ noise' = r.noise_map
                         /\ vignette_normalized' = r.vignette_normalized
                         /\ final_image_float' = r.final_image_float
                    ELSE UNCHANGED << vignette, noise, vignette_normalized,
                                      final_image_float >>
                 /\ outputs' = Append(outputs, IF p.written THEN r.image ELSE NoArray)
                 /\ reports' = IF p.reported THEN reports \cup {j + 1} ELSE reports
                 /\ cleanSeen' = Append(cleanSeen,
                        [kind |-> kind, img |-> img, write |-> write,
                         after |-> IF kind = "ok" THEN r.clean_image ELSE img])
    /\ j' = j + 1
    /\ UNCHANGED << pc, action, configLoaded, exitCode, nanAsUint8, disk, cleanDirExists,
                    stylizedDirExists, normalized_vignette, saveCalls, extractOutcome,
                    applyStarted, loadCalls, loadedVignette, loadedNoise, noise_alpha,
                    cleanDirWasMissing, nClean >>
    /\ UNCHANGED extractVars

\* run_application after the loop
ApplyFinish ==
    /\ pc = "apply_loop"
    /\ j = nClean
    /\ pc' = "exit"
    /\ exitCode' = 0
    /\ UNCHANGED << action, configLoaded, nanAsUint8, disk, cleanDirExists, stylizedDirExists,
                    normalized_vignette, saveCalls, extractOutcome, applyStarted >>
    /\ UNCHANGED extractVars
    /\ UNCHANGED applyVars

Next ==
    \/ LoadConfig
    \/ ExtractList
    \/ ExtractStep
    \/ ExtractFinish
    \/ ExtractReturn
    \/ ApplyStart
    \/ ListClean
    \/ ApplyStep
    \/ ApplyFinish

Spec == Init /\ [][Next]_vars


\* ======================================================== claims
RECURSIVE SumOk(_, _)
\* exact integer sum of sample k over the successfully processed candidates
SumOk(seen, k) ==
    IF seen = << >> THEN 0
    ELSE (IF Head(seen).kind = "ok" THEN Head(seen).img[k] ELSE 0) + SumOk(Tail(seen), k)

NumOk(seen) == Cardinality({p \in DOMAIN seen : seen[p].kind = "ok"})

\* spacing of the float64 values around x
Ulp64(x) == LET e == BitLen(Abs(x)) - MantBits64 IN IF e > 0 THEN Pow2(e) ELSE 1

InExtractLoop == pc \in {"extract_loop", "extract_return"} /\ nRaw > 0

\* C1: a candidate that fails to decode or raises is skipped, every candidate is
\* processed, the accumulator is the sum of exactly the successful images and the
\* average is that sum divided by the number of successful images.
C1_PartialFailureTolerated ==
    InExtractLoop =>
        /\ Len(rawSeen) = i
        /\ processed_image_count = NumOk(rawSeen)
        /\ accumulator = [k \in Pixels |-> FromInt(SumOk(rawSeen, k))]
        /\ pc = "extract_return" =>
              /\ i = nRaw
              /\ NumOk(rawSeen) > 0 =>
                    average_image =
                        [k \in Pixels |-> FDiv(MantBits64, FromInt(SumOk(rawSeen, k)),
                                               FromInt(NumOk(rawSeen)))]

C1_Witness ==
    /\ pc = "extract_return"
    /\ average_image # NoArray
    /\ \E p, q \in DOMAIN rawSeen :
          p < q /\ rawSeen[p].kind # "ok" /\ rawSeen[q].kind = "ok"
    /\ \E p \in DOMAIN rawSeen : rawSeen[p].kind = "error"
    /\ NumOk(rawSeen) < nRaw

\* C2: when no image is processed successfully extract_fingerprint returns
\* (None, None), and run_extraction then calls save_maps never, writes nothing
\* and exits with code 1.
C2_NoUsableImagesFails ==
    /\ [](pc = "extract_return" /\ processed_image_count = 0 =>
             vignetting_map = NoArray /\ noise_map = NoArray)
    /\ [][pc = "extract_return" /\ processed_image_count = 0 =>
             /\ pc' = "exit" /\ exitCode' = 1
             /\ saveCalls' = saveCalls /\ disk' = disk
             /\ extractOutcome' = "Failed"]_vars
    /\ [](extractOutcome = "Failed" => saveCalls = 0 /\ exitCode = 1 /\ pc = "exit")

C2_Witness ==
    /\ pc = "exit" /\ extractOutcome = "Failed"
    /\ nRaw > 0 /\ i = nRaw /\ processed_image_count = 0

CleanFailed(p) == cleanSeen[p].kind # "ok" \/ cleanSeen[p].write # "written"

\* C3: in the apply loop every clean image that fails is skipped and reported,
\* and exactly one stylized output is written for every image that did not fail.
C3_EveryFailureReported ==
    \A p \in DOMAIN cleanSeen :
        /\ CleanFailed(p) => p \in reports /\ outputs[p] = NoArray
        /\ ~CleanFailed(p) => p \notin reports /\ outputs[p] # NoArray

\* C4: under "all" application starts only after a successful extraction; a
\* configuration failure, a failed extraction or a missing fingerprint ends the
\* process with exit code 1 where it happens, with no stage run after a
\* configuration failure and no application after a failed extraction.
C4_ActionFailuresAbort ==
    /\ exitCode # -1 => pc = "exit"
    /\ configLoaded = "no" =>
          exitCode = 1 /\ extractOutcome = "NotRun" /\ ~applyStarted /\ saveCalls = 0
    /\ applyStarted /\ action = "all" => extractOutcome = "Ok"
    /\ extractOutcome = "Failed" =>
          exitCode = 1 /\ ~applyStarted /\ ~stylizedDirExists /\ outputs = << >>
    /\ applyStarted /\ (loadedVignette = NoArray \/ loadedNoise = NoArray) =>
          exitCode = 1 /\ outputs = << >>

C4_Witness ==
    /\ action = "all" /\ pc = "exit"
    /\ extractOutcome = "Failed" /\ nRaw > 0
    /\ disk = StaleFingerprint

\* C5: every sample of every image apply_style returns lies in 0..255.
C5_OutputInRange ==
    \A p \in DOMAIN outputs :
        outputs[p] # NoArray => \A k \in Pixels : outputs[p][k] \in 0..MaxSample

C5_Witness ==
    /\ j > 0 /\ outputs[j] # NoArray
    /\ \E k \in Pixels : IsFinite(final_image_float[k]) /\ final_image_float[k] < 0
    /\ \E k \in Pixels : IsFinite(final_image_float[k])
                           /\ final_image_float[k] > FromInt(MaxSample)

MaxIsOne(f) == FMax(f) = One /\ \A k \in DOMAIN f : FLe(f[k], One)

\* C6: a vignetting field divided by its own maximum, in save_maps and in
\* apply_style, has maximum 1.0 and no value above 1.0.
C6_NormalizedMaxIsOne ==
    /\ normalized_vignette # NoArray => MaxIsOne(normalized_vignette)
    /\ vignette_normalized # NoArray => MaxIsOne(vignette_normalized)

\* C7 as stated: vignetting + noise == average at every pixel, in float64.
C7_ExactReconstruction ==
    pc = "extract_return" /\ vignetting_map # NoArray =>
        \A k \in Pixels :
            /\ average_image[k] =
                  FDiv(MantBits64, accumulator[k], FromInt(processed_image_count))
            /\ FAdd(MantBits64, vignetting_map[k], noise_map[k]) = average_image[k]

\* C7: the noise field is the float64-rounded difference average - vignetting:
\* vignetting + noise differs from the average by at most half the spacing of
\* the float64 values at the noise sample (and by nothing where the difference
\* is representable).
C7_ReconstructionWithinRounding ==
    pc = "extract_return" /\ vignetting_map # NoArray =>
        \A k \in Pixels :
            /\ average_image[k] =
                  FDiv(MantBits64, accumulator[k], FromInt(processed_image_count))
            /\ 2 * Abs(vignetting_map[k] + noise_map[k] - average_image[k])
                  <= Ulp64(noise_map[k])

C7_Witness ==
    /\ pc = "extract_return" /\ vignetting_map # NoArray
    /\ \E k \in Pixels : vignetting_map[k] + noise_map[k] # average_image[k]
    /\ \E k \in Pixels : noise_map[k] # 0
                           /\ vignetting_map[k] + noise_map[k] = average_image[k]

\* the clamped product of the image and the max-normalized vignetting field
VignetteOnly(img, vig) ==
    [k \in Pixels |->
        AsUint8(Clip(FMul(MantBits32, FromInt(img[k]),
                          FDiv(MantBits32, vig[k], FMax(vig)))))]

OtherNoiseFields ==
    {Zeros, [k \in Pixels |-> FromInt(40)], [k \in Pixels |-> -FromInt(k)]}

\* C8: with noise_alpha = 0 the output is the clamped product of the image and
\* the normalized vignetting field, whatever the noise field.
C8_ZeroAlphaDisablesNoise ==
    noise_alpha = 0 =>
        \A p \in DOMAIN outputs :
            outputs[p] # NoArray =>
                /\ outputs[p] = VignetteOnly(cleanSeen[p].img, loadedVignette)
                /\ \A n \in OtherNoiseFields :
                      apply_style(cleanSeen[p].img, loadedVignette, n, 0).image
                          = outputs[p]

C8_Witness ==
    /\ noise_alpha = 0 /\ j > 0 /\ outputs[j] # NoArray
    /\ \E k \in Pixels : loadedNoise[k] # 0
    /\ apply_style(cleanSeen[j].img, loadedVignette, loadedNoise, One).image # outputs[j]

CleanDirMissingAtStart == ~cleanDirExists \/ cleanDirWasMissing

\* C9 as stated: whenever the clean-image directory does not exist the apply
\* action creates it, writes nothing and returns with exit code 0.
C9_MissingCleanDirAlwaysCreated ==
    applyStarted /\ pc = "exit" /\ CleanDirMissingAtStart =>
        cleanDirExists /\ outputs = << >> /\ exitCode = 0

\* C9: when the fingerprint was loaded and the clean-image directory does not
\* exist, the apply action creates it, writes nothing and returns with exit code 0.
C9_MissingCleanDirCreatedAfterLoad ==
    /\ applyStarted /\ pc = "exit" /\ CleanDirMissingAtStart
    /\ loadedVignette # NoArray /\ loadedNoise # NoArray
    => cleanDirExists /\ cleanDirWasMissing /\ outputs = << >> /\ exitCode = 0

C9_Witness ==
    /\ pc = "exit" /\ cleanDirWasMissing /\ cleanDirExists /\ exitCode = 0
    /\ loadedVignette # NoArray

\* C10: the fingerprint is loaded once, no apply_style call changes it or the
\* clean image, and every output is a function of its image, the loaded
\* fingerprint and noise_alpha alone.
C10_FingerprintUnchanged ==
    applyStarted =>
        /\ loadCalls = 1
        /\ vignette = loadedVignette /\ noise = loadedNoise
        /\ \A p \in DOMAIN outputs :
              /\ cleanSeen[p].after = cleanSeen[p].img
              /\ outputs[p] # NoArray =>
                    outputs[p] = apply_style(cleanSeen[p].img, loadedVignette,
                                             loadedNoise, noise_alpha).image

C10_Witness ==
    /\ j >= 2 /\ outputs[1] # NoArray /\ outputs[2] # NoArray
    /\ cleanSeen[1].img # cleanSeen[2].img
    /\ \E k \in Pixels : loadedNoise[k] # 0
    /\ noise_alpha # 0

====
